---- MODULE Spec2Model ----
(***************************************************************************)
(* Model of validator_progression.py: the extraction pipeline (sort by     *)
(* offset, merge of same-offset entries), the sustain inference            *)
(* should_note_be_held, and the matcher loop of main() that consumes       *)
(* operator commands and MIDI messages.                                    *)
(*                                                                         *)
(* Offsets and durations are quarter lengths scaled to integers, so the    *)
(* 1e-9 tolerance of the float comparisons degenerates to exact equality   *)
(* and strict inequality.  The wall clock is counted in quarter seconds.   *)
(* Event indices are 0-based as in the source; events[i] of the source is  *)
(* events[i + 1] here.                                                     *)
(***************************************************************************)
EXTENDS Integers, Sequences, FiniteSets, TLC

\* ---------------------------------------------------------------- bounds
MaxRaw == 2             \* raw entries extracted from the score
MaxDur == 2             \* largest quarter length of an entry
MaxTime == 5            \* the wall clock stops advancing here
MaxHeld == 3            \* events of a list handed to should_note_be_held
MaxMerge == 3           \* raw entries of a list handed to the merge alone
MaxChecked == 2         \* events of a list handed to check_event_completed

\* CHORD_WINDOW = 0.5 s, in quarter seconds
CHORD_WINDOW == 2

\* Python None (an optional value is << >> or << v >>)
None == << >>

Some(v) == << v >>

\* MIDI pitches of the score entries
Pitch == {60, 61}

\* The keyboard also has a key that no score entry uses.
Keys == Pitch \cup {62}

\* ------------------------------------------------------------ MusicEvent
MusicEvent(event_type, pitches, duration, offset, measure_num) ==
    [type |-> event_type, pitches |-> pitches, duration |-> duration,
     offset |-> offset, measure |-> measure_num]

Range(s) == {s[k] : k \in 1..Len(s)}

Max(a, b) == IF a >= b THEN a ELSE b

\* ------------------------------------------------- extraction of the score
\* One raw entry per Note or Chord element of the flattened part.
RawEvent(pitches, duration, offset, measure_num) ==
    MusicEvent(IF Len(pitches) = 1 THEN "note" ELSE "chord",
               pitches, duration, offset, measure_num)

\* events.sort(key=lambda e: e.offset): stable, ascending by offset.
RECURSIVE InsertByOffset(_, _)
InsertByOffset(e, s) ==
    IF s = << >> THEN << e >>
    ELSE IF e.offset < Head(s).offset THEN << e >> \o s
    ELSE << Head(s) >> \o InsertByOffset(e, Tail(s))

RECURSIVE SortByOffset(_)
SortByOffset(s) ==
    IF s = << >> THEN << >>
    ELSE InsertByOffset(s[Len(s)], SortByOffset(SubSeq(s, 1, Len(s) - 1)))

\* ------------------------------------------------------------------ merge
\* j of the inner while loop: first index after i whose offset differs from
\* the offset of evs[i] (1-based; Len(evs) + 1 when the run reaches the end).
RECURSIVE RunEnd(_, _, _)
RunEnd(evs, i, j) ==
    IF j <= Len(evs) /\ evs[j].offset = evs[i].offset
    THEN RunEnd(evs, i, j + 1)
    ELSE j

\* Variant: the duration of the first entry holding the pitch, never updated.
RECURSIVE PitchToFirstDuration(_, _)
PitchToFirstDuration(run, pitch) ==
    IF run = << >> THEN 0
    ELSE IF pitch \in Range(Head(run).pitches) THEN Head(run).duration
    ELSE PitchToFirstDuration(Tail(run), pitch)

\* pitch_to_max_duration[pitch] over same_offset_events
RECURSIVE PitchToMaxDuration(_, _)
PitchToMaxDuration(run, pitch) ==
    IF run = << >> THEN 0
    ELSE LET rest == PitchToMaxDuration(Tail(run), pitch)
         IN  IF pitch \in Range(Head(run).pitches)
             THEN Max(Head(run).duration, rest)
             ELSE rest

\* Variant: the durations of the pitches are added up.
RECURSIVE SumOver(_, _)
SumOver(run, ps) ==
    IF ps = << >> THEN 0
    ELSE PitchToMaxDuration(run, Head(ps)) + SumOver(run, Tail(ps))

RECURSIVE MaxOver(_, _)
MaxOver(run, ps) ==
    IF ps = << >> THEN 0
    ELSE Max(PitchToMaxDuration(run, Head(ps)), MaxOver(run, Tail(ps)))

\* Variant: processed_pitches is not consulted.
RECURSIVE EmitRunNoFilter(_, _, _)
EmitRunNoFilter(run, rest, processed) ==
    IF rest = << >> THEN << >>
    ELSE LET event == Head(rest)
         IN  << MusicEvent(IF Len(event.pitches) = 1 THEN "note" ELSE "chord",
                           event.pitches,
                           MaxOver(run, event.pitches),
                           event.offset, event.measure) >>
             \o EmitRunNoFilter(run, Tail(rest), processed)

\* The second loop over same_offset_events: every entry emits one event made
\* of its pitches that no earlier entry of the run has emitted.
RECURSIVE EmitRun(_, _, _)
EmitRun(run, rest, processed) ==
    IF rest = << >> THEN << >>
    ELSE LET event == Head(rest)
             event_pitches == SelectSeq(event.pitches,
                                        LAMBDA p : p \notin processed)
         IN  IF event_pitches = << >>
             THEN EmitRun(run, Tail(rest), processed)
             ELSE << MusicEvent(IF Len(event_pitches) = 1
                                THEN "note" ELSE "chord",
                                event_pitches,
                                MaxOver(run, event_pitches),
                                event.offset, event.measure) >>
                  \o EmitRun(run, Tail(rest),
                             processed \cup Range(event_pitches))

RECURSIVE MergeFrom(_, _)
MergeFrom(evs, i) ==
    IF i > Len(evs) THEN << >>
    ELSE LET j == RunEnd(evs, i, i + 1)
             same_offset_events == SubSeq(evs, i, j - 1)
         IN  EmitRun(same_offset_events, same_offset_events, {})
             \o MergeFrom(evs, j)

Merge(evs) == MergeFrom(evs, 1)

\* ---------------------------------------------------------- score inputs
\* Pitch lists of an entry: one pitch, or two pitches in ascending order.
PitchLists ==
    {<< p >> : p \in Pitch}
    \cup {pq \in {<< p, q >> : p \in Pitch, q \in Pitch} : pq[1] < pq[2]}

\* Quarter lengths of a measure.
MeasureLengths == {1, 2}

\* Offset of the i-th entry: each entry starts with the previous one
\* (steps[i] = 0) or one quarter later (steps[i] = 1); the first starts at 0.
RECURSIVE OffsetOf(_, _)
OffsetOf(steps, i) ==
    IF i = 1 THEN 0 ELSE OffsetOf(steps, i - 1) + steps[i]

\* The entries of one part in score order, all of the same quarter length;
\* the measure number follows from the offset.
RawScore(pitch_lists, steps, duration, measure_length) ==
    [i \in 1..Len(pitch_lists) |->
        RawEvent(pitch_lists[i], duration, OffsetOf(steps, i),
                 (OffsetOf(steps, i) \div measure_length) + 1)]

RawScores ==
    UNION {{RawScore(pitch_lists, steps, duration, measure_length) :
              pitch_lists \in [1..n -> PitchLists],
              steps \in [1..n -> {0, 1}],
              duration \in 1..MaxDur,
              measure_length \in MeasureLengths} : n \in 1..MaxRaw}

Extract(raw) == Merge(SortByOffset(raw))

MeasureNumbers == 0..(MaxRaw + 1)

\* ------------------------------------------------------------------ state
VARIABLES
    events,               \* the merged event sequence, fixed after extraction
    current_event_idx,    \* 0-based index of the expected event
    currently_pressed,    \* set of pitches currently held down
    pending_chord_notes,  \* chord pitches still awaited (written, never read)
    chord_start_time,     \* None or Some(time of the first chord key-down)
    now,                  \* the wall clock, read by time.time()
    pc,                   \* position of main(): top, cmd, msgs, done, quit, crashed
    out,                  \* what the last step of main() printed
    missing_held_notes,   \* local of the last step: pitches of its warning
    elapsed               \* local of the last step: None or Some(elapsed)

vars == << events, current_event_idx, currently_pressed, pending_chord_notes,
           chord_start_time, now, pc, out, missing_held_notes, elapsed >>

\* A step that runs no sustain check and no chord timing.
NoLocals == missing_held_notes' = << >> /\ elapsed' = None

At(idx) == events[idx + 1]

\* ------------------------------------------------------ sustain inference
\* Variant: the earliest occurrence instead of the most recent one.
FirstOccurrenceIdx(pitch, i) ==
    LET found == {j \in 0..i : pitch \in Range(At(j).pitches)}
    IN  IF found = {} THEN None
        ELSE Some(CHOOSE j \in found : \A k \in found : j <= k)

\* Variant: the scan starts at the end of the list, not before the target.
LastOccurrenceAnywhere(pitch, i) ==
    LET found == {j \in 0..(Len(events) - 1) : pitch \in Range(At(j).pitches)}
    IN  IF found = {} THEN None
        ELSE Some(CHOOSE j \in found : \A k \in found : k <= j)

\* The backward loop of should_note_be_held: nearest index <= i holding pitch.
RECURSIVE LastOccurrenceIdx(_, _)
LastOccurrenceIdx(pitch, i) ==
    IF i < 0 THEN None
    ELSE IF pitch \in Range(At(i).pitches) THEN Some(i)
    ELSE LastOccurrenceIdx(pitch, i - 1)

\* Variant: a note ending exactly at the target onset counts as held.
ShouldBeHeldInclusive(pitch, current_idx) ==
    LET last_occurrence_idx == LastOccurrenceIdx(pitch, current_idx - 1)
    IN  IF last_occurrence_idx = None THEN FALSE
        ELSE IF current_idx < Len(events)
        THEN LET last_event == At(last_occurrence_idx[1])
                 current_offset == At(current_idx).offset
             IN  IF last_event.offset = current_offset THEN FALSE
                 ELSE last_event.offset + last_event.duration >= current_offset
        ELSE FALSE

\* Variant: without the test for a simultaneous onset.
ShouldBeHeldNoOnsetCheck(pitch, current_idx) ==
    LET last_occurrence_idx == LastOccurrenceIdx(pitch, current_idx - 1)
    IN  IF last_occurrence_idx = None THEN FALSE
        ELSE IF current_idx < Len(events)
        THEN LET last_event == At(last_occurrence_idx[1])
             IN  last_event.offset + last_event.duration
                    > At(current_idx).offset
        ELSE FALSE

should_note_be_held(pitch, current_idx) ==
    LET last_occurrence_idx == LastOccurrenceIdx(pitch, current_idx - 1)
    IN  IF last_occurrence_idx = None THEN FALSE
        ELSE IF current_idx < Len(events)
        THEN LET last_event == At(last_occurrence_idx[1])
                 current_offset == At(current_idx).offset
                 note_end_offset == last_event.offset + last_event.duration
                 last_offset == last_event.offset
             IN  IF last_offset = current_offset THEN FALSE
                 ELSE note_end_offset > current_offset
        ELSE FALSE

\* Variant: a chord counts as complete as soon as one of its pitches is down.
CheckAnyPressed(event, pressed) ==
    \E k \in 1..Len(event.pitches) : event.pitches[k] \in pressed

\* Variant: the note branch is missing, only chords can complete.
CheckChordOnly(event, pressed) ==
    /\ event.type = "chord"
    /\ \A k \in 1..Len(event.pitches) : event.pitches[k] \in pressed

\* Variant: an event is complete only when the notes to sustain are held too.
CheckWithHeldNotes(event, pressed) ==
    /\ \A k \in 1..Len(event.pitches) : event.pitches[k] \in pressed
    /\ \A i \in 0..(current_event_idx - 1) :
          \A k \in 1..Len(At(i).pitches) :
             should_note_be_held(At(i).pitches[k], current_event_idx)
             => At(i).pitches[k] \in pressed

\* Variant: the pressed set has to be exactly the pitch set of the event.
CheckExactlyPressed(event, pressed) ==
    pressed = Range(event.pitches)

check_event_completed(event, pressed) ==
    IF event.type = "note"
    THEN event.pitches[1] \in pressed
    ELSE \A k \in 1..Len(event.pitches) : event.pitches[k] \in pressed

\* Pitches of the events before idx, in event order then pitch order.
RECURSIVE PrevPitches(_)
PrevPitches(idx) ==
    IF idx = 0 THEN << >>
    ELSE PrevPitches(idx - 1) \o At(idx - 1).pitches

\* Variant: a pitch to sustain is listed even while it is held down.
RECURSIVE MissingHeldIgnoringPressed(_, _, _, _)
MissingHeldIgnoringPressed(ps, checked_pitches, idx, pressed) ==
    IF ps = << >> THEN << >>
    ELSE LET prev_pitch == Head(ps)
         IN  IF prev_pitch \in checked_pitches
             THEN MissingHeldIgnoringPressed(Tail(ps), checked_pitches,
                                             idx, pressed)
             ELSE (IF should_note_be_held(prev_pitch, idx)
                   THEN << prev_pitch >> ELSE << >>)
                  \o MissingHeldIgnoringPressed(
                         Tail(ps), checked_pitches \cup {prev_pitch},
                         idx, pressed)

\* The sustain check made when the current event is complete: every distinct
\* pitch of an earlier event, once, in first-seen order.
RECURSIVE MissingHeld(_, _, _, _)
MissingHeld(ps, checked_pitches, idx, pressed) ==
    IF ps = << >> THEN << >>
    ELSE LET prev_pitch == Head(ps)
         IN  IF prev_pitch \in checked_pitches
             THEN MissingHeld(Tail(ps), checked_pitches, idx, pressed)
             ELSE (IF should_note_be_held(prev_pitch, idx)
                      /\ prev_pitch \notin pressed
                   THEN << prev_pitch >> ELSE << >>)
                  \o MissingHeld(Tail(ps), checked_pitches \cup {prev_pitch},
                                 idx, pressed)

\* `chord_start_time if chord_start_time else 0`: None and 0.0 are falsy.
Elapsed(t, start) ==
    IF start # None /\ start[1] # 0 THEN t - start[1] ELSE 0

\* Variant: the highest index of the measure instead of the lowest.
RECURSIVE FindMeasureLast(_, _)
FindMeasureLast(target_bar, idx) ==
    IF idx >= Len(events) THEN None
    ELSE LET later == FindMeasureLast(target_bar, idx + 1)
         IN  IF later # None THEN later
             ELSE IF At(idx).measure = target_bar THEN Some(idx)
             ELSE None

\* Variant: an unknown measure falls back to the first event.
RECURSIVE FindMeasureOrFirst(_, _)
FindMeasureOrFirst(target_bar, idx) ==
    IF idx >= Len(events) THEN Some(0)
    ELSE IF At(idx).measure = target_bar THEN Some(idx)
    ELSE FindMeasureOrFirst(target_bar, idx + 1)

\* enumerate(events) loop of the jump command: lowest index of the measure.
RECURSIVE FindMeasure(_, _)
FindMeasure(target_bar, idx) ==
    IF idx >= Len(events) THEN None
    ELSE IF At(idx).measure = target_bar THEN Some(idx)
    ELSE FindMeasure(target_bar, idx + 1)

\* ------------------------------------------------------------------- Init
Init ==
    /\ events \in {Extract(raw) : raw \in RawScores}
    /\ current_event_idx = 0
    /\ currently_pressed = {}
    /\ pending_chord_notes = {}
    /\ chord_start_time = None
    /\ now = 1
    /\ pc = "top"
    /\ out = {}
    /\ missing_held_notes = << >>
    /\ elapsed = None

\* ---------------------------------------------------------------- actions
\* Variant: the loop has no completion test and always goes on polling.
LoopTopKeepsRunning ==
    /\ pc = "top"
    /\ pc' = "cmd"
    /\ out' = {}
    /\ NoLocals
    /\ UNCHANGED << events, current_event_idx, currently_pressed,
                    pending_chord_notes, chord_start_time, now >>

\* Variant: the completion test is one event early.
LoopTopOffByOne ==
    /\ pc = "top"
    /\ IF current_event_idx >= Len(events) - 1
       THEN pc' = "done" /\ out' = {"Complete"}
       ELSE pc' = "cmd" /\ out' = {}
    /\ NoLocals
    /\ UNCHANGED << events, current_event_idx, currently_pressed,
                    pending_chord_notes, chord_start_time, now >>

\* Head of `while running`: the piece is over once the index reaches the end.
LoopTop ==
    /\ pc = "top"
    /\ IF current_event_idx >= Len(events)
       THEN pc' = "done" /\ out' = {"Complete"}
       ELSE pc' = "cmd" /\ out' = {}
    /\ NoLocals
    /\ UNCHANGED << events, current_event_idx, currently_pressed,
                    pending_chord_notes, chord_start_time, now >>

\* No line on stdin, or a line that is neither q, quit nor j<number>.
NoCommand ==
    /\ pc = "cmd"
    /\ pc' = "msgs"
    /\ out' \in {{}, {"Usage"}}
    /\ NoLocals
    /\ UNCHANGED << events, current_event_idx, currently_pressed,
                    pending_chord_notes, chord_start_time, now >>

Quit ==
    /\ pc = "cmd"
    /\ pc' = "quit"
    /\ out' = {"Quit"}
    /\ NoLocals
    /\ UNCHANGED << events, current_event_idx, currently_pressed,
                    pending_chord_notes, chord_start_time, now >>

Jump(target_bar) ==
    /\ pc = "cmd"
    /\ pc' = "msgs"
    /\ LET found == FindMeasure(target_bar, 0)
       IN  IF found # None
           THEN /\ current_event_idx' = found[1]
                /\ currently_pressed' = {}
                /\ chord_start_time' = None
                /\ pending_chord_notes' = {}
                /\ out' = {"Jump"}
           ELSE /\ out' = {"NotFound"}
                /\ UNCHANGED << current_event_idx, currently_pressed,
                                chord_start_time, pending_chord_notes >>
    /\ NoLocals
    /\ UNCHANGED << events, now >>

\* Variant: set.remove instead of set.discard, a KeyError on an absent pitch.
KeyUpRemove(pitch) ==
    /\ pc = "msgs"
    /\ IF pitch \in currently_pressed
       THEN /\ currently_pressed' = currently_pressed \ {pitch}
            /\ out' = {}
            /\ pc' = pc
       ELSE /\ out' = {"KeyError"}
            /\ pc' = "crashed"
            /\ UNCHANGED currently_pressed
    /\ NoLocals
    /\ UNCHANGED << events, current_event_idx, pending_chord_notes,
                    chord_start_time, now >>

\* note_off, or note_on with velocity 0
KeyUp(pitch) ==
    /\ pc = "msgs"
    /\ currently_pressed' = currently_pressed \ {pitch}
    /\ out' = {}
    /\ NoLocals
    /\ UNCHANGED << events, current_event_idx, pending_chord_notes,
                    chord_start_time, now, pc >>

\* iter_pending() is exhausted: sleep, then back to the head of the loop.
EndBatch ==
    /\ pc = "msgs"
    /\ pc' = "top"
    /\ out' = {}
    /\ NoLocals
    /\ UNCHANGED << events, current_event_idx, currently_pressed,
                    pending_chord_notes, chord_start_time, now >>

\* Time passes between two steps of the loop.
Tick ==
    /\ pc \in {"top", "cmd", "msgs"}
    /\ now < MaxTime
    /\ now' = now + 1
    /\ UNCHANGED << events, current_event_idx, currently_pressed,
                    pending_chord_notes, chord_start_time, pc, out,
                    missing_held_notes, elapsed >>

\* Variant: every key is taken as part of the expected event.
ExpectedAnyKey(event, pitch) == TRUE

\* `pitch not in current_event.pitches` is the rejection test of a note_on.
Expected(event, pitch) == pitch \in Range(event.pitches)

\* Variant: the window opens for single notes as well.
StartOfWindowAnyEvent(event, start, t) ==
    IF start = None THEN Some(t) ELSE start

\* Variant: every accepted note_on of a chord restarts the window.
StartOfWindowRestarts(event, start, t) ==
    IF event.type = "chord" THEN Some(t) ELSE start

\* The chord window opens at the first accepted note_on of a chord.
StartOfWindow(event, start, t) ==
    IF event.type = "chord" /\ start = None THEN Some(t) ELSE start

\* Variant: the boundary elapsed = CHORD_WINDOW is refused.
StrictlyInChordWindow(e) == e < CHORD_WINDOW

\* Variant: the window is one tick too long.
InLongerChordWindow(e) == e <= CHORD_WINDOW + 1

\* `elapsed <= CHORD_WINDOW`
InChordWindow(e) == e <= CHORD_WINDOW

\* note_on with velocity > 0.  events[current_event_idx] raises IndexError
\* when the index has reached the end of the list; nothing catches it.
KeyDown(pitch) ==
    /\ pc = "msgs"
    /\ IF current_event_idx >= Len(events)
       THEN /\ pc' = "crashed"
            /\ out' = {"IndexError"}
            /\ NoLocals
            /\ UNCHANGED << current_event_idx, currently_pressed,
                            pending_chord_notes, chord_start_time >>
       ELSE
       LET current_event == At(current_event_idx)
           pressed1 == currently_pressed \cup {pitch}
           is_chord == current_event.type = "chord"
           start1 == StartOfWindow(current_event, chord_start_time, now)
           pending1 == IF ~is_chord THEN pending_chord_notes
                       ELSE IF chord_start_time = None
                       THEN Range(current_event.pitches) \ {pitch}
                       ELSE pending_chord_notes \ {pitch}
           missing == IF current_event_idx > 0
                      THEN MissingHeld(PrevPitches(current_event_idx), {},
                                       current_event_idx, pressed1)
                      ELSE << >>
           warning == IF missing # << >> THEN {"Warning"} ELSE {}
           elapsed1 == Elapsed(now, start1)
       IN  /\ pc' = pc
           /\ IF ~Expected(current_event, pitch)
              THEN /\ out' = {"Unexpected"}
                   /\ NoLocals
                   /\ UNCHANGED << current_event_idx, currently_pressed,
                                   pending_chord_notes, chord_start_time >>
              ELSE IF ~check_event_completed(current_event, pressed1)
              THEN /\ out' = {"OK"}
                   /\ NoLocals
                   /\ currently_pressed' = pressed1
                   /\ chord_start_time' = start1
                   /\ pending_chord_notes' = pending1
                   /\ UNCHANGED current_event_idx
              ELSE IF is_chord
              THEN /\ missing_held_notes' = missing
                   /\ elapsed' = Some(elapsed1)
                   /\ IF InChordWindow(elapsed1)
                      THEN /\ out' = {"OK", "Validated"} \cup warning
                           /\ currently_pressed' = pressed1
                           /\ current_event_idx' = current_event_idx + 1
                           /\ chord_start_time' = None
                           /\ pending_chord_notes' = {}
                      ELSE /\ out' = {"OK", "TooSlow"} \cup warning
                           /\ chord_start_time' = None
                           /\ pending_chord_notes' =
                                  Range(current_event.pitches)
                           /\ currently_pressed' = {}
                           /\ UNCHANGED current_event_idx
              ELSE /\ out' = {"OK", "Validated"} \cup warning
                   /\ missing_held_notes' = missing
                   /\ elapsed' = None
                   /\ currently_pressed' = pressed1
                   /\ current_event_idx' = current_event_idx + 1
                   /\ chord_start_time' = start1
                   /\ pending_chord_notes' = pending1
    /\ UNCHANGED << events, now >>

Next ==
    \/ LoopTop
    \/ NoCommand
    \/ Quit
    \/ \E target_bar \in MeasureNumbers : Jump(target_bar)
    \/ \E pitch \in Keys : KeyDown(pitch)
    \/ \E pitch \in Keys : KeyUp(pitch)
    \/ EndBatch
    \/ Tick

Spec == Init /\ [][Next]_vars

\* The loop with its scheduling: the head of the loop, the poll of stdin and
\* the end of the pending batch are each taken once they are reached.
CommandStep ==
    \/ NoCommand
    \/ Quit
    \/ \E target_bar \in MeasureNumbers : Jump(target_bar)

\* Scores written in quarter notes only: the written lengths decide the
\* sustain warnings, which never hold the cursor back.
LiveScores == {raw \in RawScores : \A k \in 1..Len(raw) : raw[k].duration = 1}

InitLive ==
    /\ events \in {Extract(raw) : raw \in LiveScores}
    /\ current_event_idx = 0
    /\ currently_pressed = {}
    /\ pending_chord_notes = {}
    /\ chord_start_time = None
    /\ now = 1
    /\ pc = "top"
    /\ out = {}
    /\ missing_held_notes = << >>
    /\ elapsed = None

SpecLive ==
    /\ InitLive
    /\ [][Next]_vars
    /\ WF_vars(LoopTop)
    /\ WF_vars(CommandStep)
    /\ WF_vars(EndBatch)

\* ------------------------------------- should_note_be_held called directly
\* The tests set the module global `events` to a list of their own, sorted by
\* offset, and call should_note_be_held(pitch, idx) on it.
HeldDurations == {1, 3}

HeldScore(pitch_lists, steps, durations) ==
    [i \in 1..Len(pitch_lists) |->
        RawEvent(pitch_lists[i], durations[i], OffsetOf(steps, i),
                 OffsetOf(steps, i) + 1)]

InitHeld ==
    /\ \E n \in 1..MaxHeld :
          \E pitch_lists \in [1..n -> PitchLists],
             steps \in [1..n -> {0, 1}],
             durations \in [1..n -> HeldDurations] :
             /\ steps[1] = 0
             /\ events = HeldScore(pitch_lists, steps, durations)
    /\ current_event_idx = 0
    /\ currently_pressed = {}
    /\ pending_chord_notes = {}
    /\ chord_start_time = None
    /\ now = 1
    /\ pc = "held"
    /\ out = {}
    /\ missing_held_notes = << >>
    /\ elapsed = None

\* One call; out records the arguments and the returned value.
CallShouldNoteBeHeld(pitch, idx) ==
    /\ pc = "held"
    /\ out' = {[pitch |-> pitch, idx |-> idx,
                held |-> should_note_be_held(pitch, idx)]}
    /\ UNCHANGED << events, current_event_idx, currently_pressed,
                    pending_chord_notes, chord_start_time, now, pc,
                    missing_held_notes, elapsed >>

NextHeld ==
    \E pitch \in Keys, idx \in 0..Len(events) :
        CallShouldNoteBeHeld(pitch, idx)

SpecHeld == InitHeld /\ [][NextHeld]_vars

\* ------------------------------------------------- the merge run on its own
\* The extracted entries of a score whose entries differ in quarter length,
\* then the sort and the merge of main(), then the merge applied once more
\* to its own result.
MergeDurations == {1, 2}

MergeScore(pitch_lists, steps, durations, measure_length) ==
    [i \in 1..Len(pitch_lists) |->
        RawEvent(pitch_lists[i], durations[i], OffsetOf(steps, i),
                 (OffsetOf(steps, i) \div measure_length) + 1)]

InitMerge ==
    /\ \E n \in 1..MaxMerge :
          \E pitch_lists \in [1..n -> PitchLists],
             steps \in [1..n -> {0, 1}],
             durations \in [1..n -> MergeDurations],
             measure_length \in MeasureLengths :
             /\ steps[1] = 0
             /\ events = MergeScore(pitch_lists, steps, durations,
                                    measure_length)
    /\ current_event_idx = 0
    /\ currently_pressed = {}
    /\ pending_chord_notes = {}
    /\ chord_start_time = None
    /\ now = 1
    /\ pc = "extracted"
    /\ out = {}
    /\ missing_held_notes = << >>
    /\ elapsed = None

\* events.sort(...) and the merge loop; out keeps the sorted entries.
SortAndMerge ==
    /\ pc = "extracted"
    /\ events' = Extract(events)
    /\ out' = {SortByOffset(events)}
    /\ pc' = "merged"
    /\ UNCHANGED << current_event_idx, currently_pressed,
                    pending_chord_notes, chord_start_time, now,
                    missing_held_notes, elapsed >>

\* The merge loop run on the merged sequence.
MergeAgain ==
    /\ pc = "merged"
    /\ events' = Merge(events)
    /\ pc' = "remerged"
    /\ UNCHANGED << current_event_idx, currently_pressed,
                    pending_chord_notes, chord_start_time, now, out,
                    missing_held_notes, elapsed >>

NextMerge ==
    \/ SortAndMerge
    \/ MergeAgain

SpecMerge == InitMerge /\ [][NextMerge]_vars

\* ----------------------------------- check_event_completed called directly
\* The tests build an event, set the module global `currently_pressed` and
\* call check_event_completed(event).
CheckedPitchLists ==
    {ps \in UNION {[1..n -> Keys] : n \in 1..Cardinality(Keys)} :
        \A k \in 1..(Len(ps) - 1) : ps[k] < ps[k + 1]}

InitCompleted ==
    /\ \E n \in 1..MaxChecked :
          \E pitch_lists \in [1..n -> CheckedPitchLists] :
             events = [i \in 1..n |-> RawEvent(pitch_lists[i], 1, i - 1, 1)]
    /\ current_event_idx = 0
    /\ currently_pressed \in SUBSET Keys
    /\ pending_chord_notes = {}
    /\ chord_start_time = None
    /\ now = 1
    /\ pc = "checked"
    /\ out = {}
    /\ missing_held_notes = << >>
    /\ elapsed = None

\* One call; out records the argument and the returned value.
CallCheckEventCompleted(idx) ==
    /\ pc = "checked"
    /\ out' = {[idx |-> idx,
                completed |-> check_event_completed(At(idx),
                                                    currently_pressed)]}
    /\ UNCHANGED << events, current_event_idx, currently_pressed,
                    pending_chord_notes, chord_start_time, now, pc,
                    missing_held_notes, elapsed >>

NextCompleted ==
    \E idx \in 0..(Len(events) - 1) : CallCheckEventCompleted(idx)

SpecCompleted == InitCompleted /\ [][NextCompleted]_vars

TypeOK ==
    /\ current_event_idx \in 0..Len(events)
    /\ currently_pressed \subseteq Pitch
    /\ pending_chord_notes \subseteq Pitch
    /\ chord_start_time \in {None} \cup {Some(t) : t \in 1..MaxTime}
    /\ now \in 1..MaxTime
    /\ pc \in {"top", "cmd", "msgs", "done", "quit", "crashed"}
    /\ elapsed \in {None} \cup {Some(e) : e \in 0..MaxTime}

\* ----------------------------------------------------------- vocabulary
Listening == current_event_idx < Len(events)

CurrentPitches == Range(At(current_event_idx).pitches)

CurrentIsChord == At(current_event_idx).type = "chord"

\* The step validated the expected event and moved to the next one.
CompletionAdvance ==
    /\ current_event_idx' = current_event_idx + 1
    /\ "Validated" \in out'

\* pitch is expected and, once down, every pitch of the expected chord is.
FinalChordPitch(pitch) ==
    /\ Listening
    /\ CurrentIsChord
    /\ pitch \in CurrentPitches
    /\ CurrentPitches \subseteq currently_pressed \cup {pitch}

\* Time of the first accepted key-down of the chord (this one if none yet).
WindowStart == IF chord_start_time = None THEN now ELSE chord_start_time[1]

MeasureExists(m) == \E i \in 0..(Len(events) - 1) : At(i).measure = m

LowestIndexOf(m) ==
    CHOOSE i \in 0..(Len(events) - 1) :
        /\ At(i).measure = m
        /\ \A k \in 0..(i - 1) : At(k).measure # m

\* ------------------------------------------------------------------- C1
\* C1: whatever the inputs and their batching, the matcher never faults: a
\* key-down is only evaluated while an expected event exists.
C1_NeverFaults == pc # "crashed"

\* ------------------------------------------------------------------- C2
\* C2 as stated: while an event is expected, pressed holds only pitches of
\* that event.
C2_PressedInCurrentEvent ==
    Listening => currently_pressed \subseteq CurrentPitches

\* C2 amended: pressed holds only pitches of the expected event or of an
\* earlier event of the sequence.
C2_PressedInEventsSoFar ==
    currently_pressed \subseteq
        UNION {Range(At(i).pitches) :
                 i \in {k \in 0..(Len(events) - 1) : k <= current_event_idx}}

C2_Witness ==
    /\ Listening
    /\ \E p \in currently_pressed : p \notin CurrentPitches

\* ------------------------------------------------------------------- C3
\* C3 as stated: when the cursor advances on a completed event, pressed is
\* empty right after the advance.
C3_ClearedOnAdvance ==
    [][CompletionAdvance => currently_pressed' = {}]_vars

\* C3 amended: when the cursor advances on a completed event, pressed is not
\* cleared: it keeps what it held and holds every pitch of the completed
\* event.
C3_KeptOnAdvance ==
    [][CompletionAdvance =>
         /\ currently_pressed \subseteq currently_pressed'
         /\ CurrentPitches \subseteq currently_pressed']_vars

C3_Witness ==
    /\ "Validated" \in out
    /\ current_event_idx > 0
    /\ Range(At(current_event_idx - 1).pitches) \subseteq currently_pressed

\* ------------------------------------------------------------------- C4
\* C4 as stated: chord_start_time is set exactly when the expected event is
\* a chord with at least one but not all of its pitches pressed.
C4_WindowIffPartialChord ==
    (chord_start_time # None)
    <=> (/\ Listening
         /\ CurrentIsChord
         /\ currently_pressed \cap CurrentPitches # {}
         /\ ~(CurrentPitches \subseteq currently_pressed))

\* C4 amended: chord_start_time is set only while the expected event is a
\* chord whose pitches are not all pressed.
C4_WindowOnlyOnOpenChord ==
    chord_start_time # None
    => (/\ Listening
        /\ CurrentIsChord
        /\ ~(CurrentPitches \subseteq currently_pressed))

C4_Witness ==
    /\ chord_start_time # None
    /\ Listening
    /\ currently_pressed \cap CurrentPitches = {}

\* ------------------------------------------------------------------- C5
\* C5: a key-down of a pitch outside the expected event reports
\* Unexpected-Note and leaves cursor, pressed and chord_start_time as they
\* were.
C5_RejectedKeyDownFrame ==
    [][\A pitch \in Keys :
         (KeyDown(pitch) /\ Listening /\ pitch \notin CurrentPitches)
         => /\ "Unexpected" \in out'
            /\ current_event_idx' = current_event_idx
            /\ currently_pressed' = currently_pressed
            /\ chord_start_time' = chord_start_time]_vars

C5_Witness ==
    /\ "Unexpected" \in out
    /\ Listening
    /\ CurrentIsChord
    /\ chord_start_time = None

\* ------------------------------------------------------------------- C6
\* C6: the final pitch of the expected chord, pressed no later than
\* CHORD_WINDOW after the window start, advances the cursor by one and
\* clears chord_start_time; elapsed = CHORD_WINDOW is accepted.
C6_ChordInWindowAdvances ==
    [][\A pitch \in Keys :
         (/\ KeyDown(pitch)
          /\ FinalChordPitch(pitch)
          /\ now - WindowStart <= CHORD_WINDOW)
         => /\ current_event_idx' = current_event_idx + 1
            /\ chord_start_time' = None]_vars

C6_Witness ==
    /\ "Validated" \in out
    /\ elapsed = Some(CHORD_WINDOW)
    /\ chord_start_time = None

\* ------------------------------------------------------------------- C7
\* C7: the final pitch of the expected chord, pressed more than CHORD_WINDOW
\* after the window start, reports Chord-Too-Slow, keeps the cursor and
\* clears pressed and chord_start_time.
C7_ChordTooSlowResets ==
    [][\A pitch \in Keys :
         (/\ KeyDown(pitch)
          /\ FinalChordPitch(pitch)
          /\ now - WindowStart > CHORD_WINDOW)
         => /\ "TooSlow" \in out'
            /\ current_event_idx' = current_event_idx
            /\ currently_pressed' = {}
            /\ chord_start_time' = None]_vars

C7_Witness ==
    /\ "TooSlow" \in out
    /\ elapsed = Some(CHORD_WINDOW + 1)
    /\ currently_pressed = {}

\* ------------------------------------------------------------------- C8
\* C8: while a note is expected, a key-down of its pitch advances the cursor
\* by one in the same step, whatever the clock and the sustain warning.
C8_NoteAdvancesAtOnce ==
    [][\A pitch \in Keys :
         (/\ KeyDown(pitch)
          /\ Listening
          /\ ~CurrentIsChord
          /\ pitch = At(current_event_idx).pitches[1])
         => current_event_idx' = current_event_idx + 1]_vars

C8_Witness ==
    /\ {"Validated", "Warning"} \subseteq out
    /\ current_event_idx > 0
    /\ At(current_event_idx - 1).type = "note"
    /\ now > CHORD_WINDOW + 1

\* ------------------------------------------------------------------- C9
\* C9: a jump to a measure that some event carries sets the cursor to the
\* lowest index of that measure and clears pressed and chord_start_time.
C9_JumpToLowestIndex ==
    [][\A m \in MeasureNumbers :
         (Jump(m) /\ MeasureExists(m))
         => /\ current_event_idx' = LowestIndexOf(m)
            /\ currently_pressed' = {}
            /\ chord_start_time' = None]_vars

C9_Witness ==
    /\ "Jump" \in out
    /\ currently_pressed = {}
    /\ \E i \in (current_event_idx + 1)..(Len(events) - 1) :
          At(i).measure = At(current_event_idx).measure

\* ------------------------------------------------------------------ C10
\* C10: a jump to a measure that no event carries reports Measure-Not-Found
\* and leaves cursor, pressed and chord_start_time as they were, also while
\* a chord is partially pressed.
C10_JumpNotFoundFrame ==
    [][\A m \in MeasureNumbers :
         (Jump(m) /\ ~MeasureExists(m))
         => /\ "NotFound" \in out'
            /\ current_event_idx' = current_event_idx
            /\ currently_pressed' = currently_pressed
            /\ chord_start_time' = chord_start_time]_vars

C10_Witness ==
    /\ "NotFound" \in out
    /\ chord_start_time # None
    /\ currently_pressed # {}

\* ------------------------------------------------------------------ C11
\* C11 as stated: a jump is accepted in the Complete state as well: once
\* the piece is over the matcher still takes a jump command.
C11_JumpAcceptedWhenComplete ==
    pc = "done" => ENABLED (\E m \in MeasureNumbers : Jump(m))

\* C11 amended: a jump is accepted only while Listening; once the cursor has
\* reached the end it never changes again and no command is read.
C11_NoJumpOnceComplete ==
    [][/\ (\A m \in MeasureNumbers : Jump(m) => Listening)
       /\ (current_event_idx = Len(events)
           => /\ current_event_idx' = current_event_idx
              /\ pc' \in {"msgs", "top", "done", "crashed"})]_vars

C11_Witness ==
    /\ pc = "done"
    /\ out = {"Complete"}
    /\ Len(events) > 1
    /\ currently_pressed # {}

\* ------------------------------------------------------------------ C12
\* C12: a key-up (note_off, or note_on with velocity 0) removes the pitch
\* from pressed whether or not it was there, reports nothing and leaves the
\* cursor and chord_start_time as they were.
C12_KeyUpFrame ==
    [][\A pitch \in Keys :
         KeyUp(pitch)
         => /\ currently_pressed' = currently_pressed \ {pitch}
            /\ out' = {}
            /\ pc' = pc
            /\ current_event_idx' = current_event_idx
            /\ chord_start_time' = chord_start_time]_vars

C12_Witness ==
    /\ pc = "msgs"
    /\ out = {}
    /\ chord_start_time # None
    /\ currently_pressed = {}

\* ------------------------------------------------------------------ C13
\* C13: the cursor stays within 0..len(events), and the piece is reported
\* complete only with the cursor at len(events).
C13_CursorInRange ==
    /\ current_event_idx >= 0
    /\ current_event_idx <= Len(events)
    /\ (pc = "done" <=> (current_event_idx = Len(events)
                         /\ "Complete" \in out))

C13_Witness ==
    /\ current_event_idx = Len(events)
    /\ pc = "done"
    /\ "Complete" \in out

\* ------------------------------------------------------------------ C14
\* Pitches of the events before the cursor.
PriorPitches ==
    UNION {Range(At(i).pitches) : i \in 0..(current_event_idx - 1)}

\* Pitches to sustain at the cursor that are not in pressed.
SustainMissing(pressed) ==
    {p \in PriorPitches :
        should_note_be_held(p, current_event_idx) /\ p \notin pressed}

\* pitch is expected and, once down, the expected event is complete.
Completing(pitch) ==
    /\ Listening
    /\ pitch \in CurrentPitches
    /\ CurrentPitches \subseteq currently_pressed \cup {pitch}

C15_WarningDoesNotBlock ==
    [][\A pitch \in Keys :
         (/\ KeyDown(pitch)
          /\ Completing(pitch)
          /\ SustainMissing(currently_pressed \cup {pitch}) # {})
         => /\ "Warning" \in out'
            /\ current_event_idx' =
                  IF CurrentIsChord /\ now - WindowStart > CHORD_WINDOW
                  THEN current_event_idx
                  ELSE current_event_idx + 1]_vars

C15_Witness ==
    /\ {"Warning", "Validated"} \subseteq out
    /\ current_event_idx = Len(events)
    /\ missing_held_notes # << >>

\* ------------------------------------------------------------------ C16
\* A note p at offset 0 ending at 1, then a chord holding p at offset 1.
NoteThenChordScore ==
    /\ Len(events) = 2
    /\ At(0).type = "note"
    /\ At(0).offset = 0
    /\ At(0).duration = 1
    /\ At(1).type = "chord"
    /\ At(1).offset = 1
    /\ At(0).pitches[1] \in Range(At(1).pitches)

\* C16: on that score, the key-down of p and then of every chord pitch within
\* the chord window are all accepted without Unexpected-Note, Chord-Too-Slow
\* or sustain warning, whether or not p was released in between, and each
\* completing one advances the cursor, up to 2.
C16_NoteThenChordEndToEnd ==
    [][NoteThenChordScore
       => \A pitch \in Keys :
            (/\ KeyDown(pitch)
             /\ Listening
             /\ pitch \in CurrentPitches
             /\ now - WindowStart <= CHORD_WINDOW)
            => /\ out' \in {{"OK"}, {"OK", "Validated"}}
               /\ Completing(pitch)
                  => /\ "Validated" \in out'
                     /\ current_event_idx' = current_event_idx + 1]_vars

C16_Witness ==
    /\ NoteThenChordScore
    /\ current_event_idx = 2
    /\ out = {"OK", "Validated"}
    /\ pc = "msgs"

\* ----------------------------------------------------------- C17 .. C20
\* Indices before idx whose event holds pitch, and the nearest of them.
PriorOccurrences(pitch, idx) ==
    {j \in 0..(idx - 1) : pitch \in Range(At(j).pitches)}

NearestPrior(pitch, idx) ==
    CHOOSE j \in PriorOccurrences(pitch, idx) :
        \A k \in PriorOccurrences(pitch, idx) : k <= j

EndOf(event) == event.offset + event.duration

\* The written end of event last lies strictly after the onset of target,
\* and the two do not start together.
Overlaps(last, target) ==
    last.offset # target.offset /\ EndOf(last) > target.offset

\* ------------------------------------------------------------------ C17
\* C17: the result depends only on the nearest event before the target that
\* holds the pitch; an earlier occurrence never changes it, even when its end
\* lies past the target onset and the nearest one's does not.
C17_OnlyNearestOccurrence ==
    \A r \in out :
        (r.idx < Len(events) /\ PriorOccurrences(r.pitch, r.idx) # {})
        => r.held = Overlaps(At(NearestPrior(r.pitch, r.idx)), At(r.idx))

C17_Witness ==
    \E r \in out :
        /\ r.idx < Len(events)
        /\ ~r.held
        /\ \E k \in PriorOccurrences(r.pitch, r.idx) :
              /\ k < NearestPrior(r.pitch, r.idx)
              /\ Overlaps(At(k), At(r.idx))

\* ------------------------------------------------------------------ C18
\* C18: when the nearest earlier occurrence starts at another onset than the
\* target, the result is true exactly when its end is strictly greater than
\* the target onset; an end equal to the onset gives false.
C18_StrictlyPastOnset ==
    \A r \in out :
        (/\ r.idx < Len(events)
         /\ PriorOccurrences(r.pitch, r.idx) # {}
         /\ At(NearestPrior(r.pitch, r.idx)).offset # At(r.idx).offset)
        => (r.held
            <=> EndOf(At(NearestPrior(r.pitch, r.idx))) > At(r.idx).offset)

C18_Witness ==
    \E r \in out :
        /\ r.idx < Len(events)
        /\ PriorOccurrences(r.pitch, r.idx) # {}
        /\ At(NearestPrior(r.pitch, r.idx)).offset # At(r.idx).offset
        /\ EndOf(At(NearestPrior(r.pitch, r.idx))) = At(r.idx).offset
        /\ ~r.held

\* ------------------------------------------------------------------ C19
\* C19: the result is false whenever the nearest earlier occurrence has the
\* same onset as the target, whatever its duration.
C19_SameOnsetNotHeld ==
    \A r \in out :
        (/\ r.idx < Len(events)
         /\ PriorOccurrences(r.pitch, r.idx) # {}
         /\ At(NearestPrior(r.pitch, r.idx)).offset = At(r.idx).offset)
        => ~r.held

C19_Witness ==
    \E r \in out :
        /\ r.idx < Len(events)
        /\ PriorOccurrences(r.pitch, r.idx) # {}
        /\ At(NearestPrior(r.pitch, r.idx)).offset = At(r.idx).offset
        /\ At(NearestPrior(r.pitch, r.idx)).duration > 1
        /\ ~r.held

\* ------------------------------------------------------------------ C20
\* C20: the result is false when no event before the target holds the pitch,
\* also for target 0 and for a pitch that only occurs at or after the target.
C20_NeverPlayedNotHeld ==
    \A r \in out :
        PriorOccurrences(r.pitch, r.idx) = {} => ~r.held

C20_Witness ==
    \E r \in out :
        /\ PriorOccurrences(r.pitch, r.idx) = {}
        /\ r.idx > 0
        /\ \E j \in r.idx..(Len(events) - 1) : r.pitch \in Range(At(j).pitches)
        /\ ~r.held

\* ------------------------------------------------ vocabulary of the merge
\* The sorted entries the merge was run on.
SortedEntries == CHOOSE raw \in out : TRUE

EntriesAt(o) == {k \in 1..Len(SortedEntries) : SortedEntries[k].offset = o}

EntriesWith(pitch, o) ==
    {k \in EntriesAt(o) : pitch \in Range(SortedEntries[k].pitches)}

PitchesAt(o) == UNION {Range(SortedEntries[k].pitches) : k \in EntriesAt(o)}

EventsAt(o) == {i \in 1..Len(events) : events[i].offset = o}

\* Largest duration among the entries of onset o that hold the pitch.
LongestEntry(pitch, o) ==
    LET ds == {SortedEntries[k].duration : k \in EntriesWith(pitch, o)}
    IN  CHOOSE d \in ds : \A x \in ds : x <= d

\* C21: after the merge no two events share an onset: every run of
\* same-offset entries, also one mixing Note and Chord entries of different
\* pitches, comes out as one event that holds all the distinct pitches of
\* the run.
C21_OneEventPerOnset ==
    pc = "merged" =>
        \A k \in 1..Len(SortedEntries) :
            LET o == SortedEntries[k].offset
            IN  /\ Cardinality(EventsAt(o)) = 1
                /\ \A i \in EventsAt(o) :
                       Range(events[i].pitches) = PitchesAt(o)

\* C22: after the merge a pitch appears at most once among the events of one
\* onset (the pitches of each entry being distinct): once inside an event,
\* and in no second event of the same onset.
C22_PitchOncePerOnset ==
    pc = "merged" =>
        /\ \A i \in 1..Len(events) :
               Cardinality(Range(events[i].pitches)) = Len(events[i].pitches)
        /\ \A i, j \in 1..Len(events) :
               (i # j /\ events[i].offset = events[j].offset)
                   => Range(events[i].pitches) \cap Range(events[j].pitches)
                          = {}

\* Entries of one onset shared a pitch and the merge left two events there.
C22_Witness ==
    /\ pc = "merged"
    /\ \E i, j \in 1..Len(events) :
           i # j /\ events[i].offset = events[j].offset
    /\ \E pitch \in Pitch :
           Cardinality(EntriesWith(pitch, 0)) >= 2

\* C23 as stated: when a pitch occurs in several entries of one onset, the
\* merged event carrying the pitch has the maximum of those entries'
\* durations.
C23_LongestEntryOfThePitch ==
    pc = "merged" =>
        \A i \in 1..Len(events) :
            \A pitch \in Range(events[i].pitches) :
                Cardinality(EntriesWith(pitch, events[i].offset)) >= 2
                    => events[i].duration
                           = LongestEntry(pitch, events[i].offset)

\* C23 amended: a merged event has the largest duration found among the
\* same-onset entries holding any of the pitches it carries, so at least the
\* longest entry of each of its pitches and exactly that for an event of one
\* pitch; same-offset single-pitch entries of one pitch merge into exactly
\* one Note event with the largest duration.
C23_LongestEntryOfTheEvent ==
    pc = "merged" =>
        /\ \A i \in 1..Len(events) :
               LET o == events[i].offset
                   ds == {LongestEntry(pitch, o) :
                              pitch \in Range(events[i].pitches)}
               IN  /\ events[i].duration \in ds
                   /\ \A d \in ds : d <= events[i].duration
        /\ \A pitch \in Pitch :
               \A k \in 1..Len(SortedEntries) :
                   LET o == SortedEntries[k].offset
                   IN  PitchesAt(o) = {pitch}
                           => \E i \in 1..Len(events) :
                                  /\ EventsAt(o) = {i}
                                  /\ events[i].type = "note"
                                  /\ events[i].pitches = << pitch >>
                                  /\ events[i].duration
                                         = LongestEntry(pitch, o)

\* Two single-pitch entries of the same pitch and onset, the second longer,
\* became one Note event.
C23_Witness ==
    /\ pc = "merged"
    /\ Len(SortedEntries) = 2
    /\ Len(events) = 1
    /\ SortedEntries[1].pitches = SortedEntries[2].pitches
    /\ Len(SortedEntries[1].pitches) = 1
    /\ SortedEntries[1].duration < SortedEntries[2].duration
    /\ events[1].duration = SortedEntries[2].duration

\* C24: the merge is idempotent: run on an already merged sequence it yields
\* the same sequence (events, kinds, pitches, durations, offsets, measures
\* and order).
C24_MergeIdempotent ==
    [][(pc = "merged" /\ pc' = "remerged") => events' = events]_vars

\* The second merge ran on a sequence that the first merge had shortened and
\* that still holds two events of one onset.
C24_Witness ==
    /\ pc = "remerged"
    /\ Len(events) < Len(SortedEntries)
    /\ \E i, j \in 1..Len(events) :
           i # j /\ events[i].offset = events[j].offset

\* --------------------------------------------- vocabulary of the matcher
\* The loop is running and an event is expected.
ListeningLoop == pc \in {"top", "cmd", "msgs"} /\ Listening

\* Chord pitches still without an accepted key-down once `pitch` is accepted.
AwaitedAfter(pitch) ==
    IF chord_start_time = None
    THEN CurrentPitches \ {pitch}
    ELSE pending_chord_notes \ {pitch}

\* C25: chord_start_time is recorded only by the first accepted key-down of
\* a chord since the last reset (it was None); later accepted key-downs,
\* rejected key-downs and key-ups leave it alone; it is cleared only by a
\* chord advance, a Chord-Too-Slow reset or a successful jump; the elapsed
\* time is measured from the first accepted key-down.
C25_WindowStartFrame ==
    [][/\ (chord_start_time' # chord_start_time /\ chord_start_time' # None)
           => /\ chord_start_time = None
              /\ chord_start_time' = Some(now)
              /\ pc = "msgs" /\ Listening /\ CurrentIsChord
              /\ out' = {"OK"}
       /\ (chord_start_time' # chord_start_time /\ chord_start_time' = None)
           => \/ CurrentIsChord /\ CompletionAdvance
              \/ "TooSlow" \in out'
              \/ "Jump" \in out'
       /\ ((\E pitch \in Keys : KeyDown(pitch)) /\ elapsed' # None)
           => /\ Listening /\ CurrentIsChord
              /\ elapsed' = Some(now - WindowStart)
      ]_vars

\* A chord was validated after time had passed since its first key-down.
C25_Witness ==
    /\ "Validated" \in out
    /\ elapsed # None
    /\ elapsed[1] >= 1

\* C26: a chord is accepted only if a key-down was accepted for every one of
\* its pitches since it became the expected event or since the last reset; a
\* pitch held down from an earlier event does not count.
C26_ChordNeedsEveryKeyDown ==
    [][(pc = "msgs" /\ Listening /\ CurrentIsChord /\ CompletionAdvance)
          => \E pitch \in Keys : KeyDown(pitch) /\ AwaitedAfter(pitch) = {}
      ]_vars

\* C28: the cursor changes only by one step forward when the expected event
\* is completed, or by a successful jump; key-up, rejected key-down,
\* accepted key-down that does not complete, Chord-Too-Slow and failed jump
\* leave it unchanged.
C28_CursorFrame ==
    [][/\ current_event_idx' # current_event_idx
           => \/ /\ pc = "msgs" /\ Listening
                 /\ current_event_idx' = current_event_idx + 1
                 /\ "Validated" \in out'
                 /\ CurrentPitches \subseteq currently_pressed'
              \/ /\ pc = "cmd"
                 /\ "Jump" \in out'
                 /\ \E m \in MeasureNumbers :
                        /\ MeasureExists(m)
                        /\ current_event_idx' = LowestIndexOf(m)
       /\ (\E pitch \in Keys : KeyUp(pitch))
           => current_event_idx' = current_event_idx
       /\ ("Unexpected" \in out' \/ "TooSlow" \in out'
              \/ "NotFound" \in out' \/ out' = {"OK"})
           => current_event_idx' = current_event_idx
      ]_vars

\* A chord has just been refused as too slow, after an earlier event was
\* completed: the cursor stands past the first event and did not move.
C28_Witness ==
    /\ "TooSlow" \in out
    /\ current_event_idx >= 1
    /\ Listening

\* C27: check_event_completed is true exactly when every pitch of the event
\* is in the pressed set; pressed pitches outside the event do not count.
C27_CompletedIffAllPressed ==
    \A r \in out :
        pc = "checked" =>
            (r.completed
                <=> Range(At(r.idx).pitches) \subseteq currently_pressed)

\* A call returned true with a pressed pitch outside the event.
C27_Witness ==
    /\ pc = "checked"
    /\ \E r \in out :
           /\ r.completed
           /\ currently_pressed \ Range(At(r.idx).pitches) # {}
           /\ Len(At(r.idx).pitches) >= 2

\* ----------------------------------------------- the cooperating player
\* A key-down of a pitch of the expected event.
ExpectedPress(pitch) ==
    /\ Listening
    /\ pitch \in CurrentPitches
    /\ KeyDown(pitch)

\* Pitches of the expected chord with an accepted key-down since the chord
\* became expected or since the last reset.
AcceptedOfChord ==
    IF Listening /\ CurrentIsChord /\ chord_start_time # None
    THEN CurrentPitches \ pending_chord_notes
    ELSE {}

\* A step of a session in which no jump and no quit is issued, the player
\* presses only pitches of the expected event and lets no more than
\* CHORD_WINDOW pass after the first accepted key-down of a chord.
Pressing ==
    /\ ~ Quit
    /\ ~ \E target_bar \in MeasureNumbers : Jump(target_bar)
    /\ \A pitch \in Keys : KeyDown(pitch) => ExpectedPress(pitch)
    /\ Tick => \/ chord_start_time = None
               \/ now' - chord_start_time[1] <= CHORD_WINDOW

\* The same, and the player keeps down the pitches of the expected chord
\* that were accepted.
Cooperative ==
    /\ Pressing
    /\ \A pitch \in currently_pressed \cap AcceptedOfChord : ~ KeyUp(pitch)

====
